---- MODULE Spec2Model ----
(***************************************************************************)
(* Agent invocation of tinyclaw (src/src/lib/invoke.ts): the per-agent     *)
(* conversation store, the OpenRouter HTTP path and the Codex subprocess   *)
(* path.                                                                   *)
(*                                                                         *)
(* JavaScript runs one callback at a time, so every action below is the    *)
(* code between two suspension points (await / event callback).  Arrays    *)
(* are reference values: agentConversations maps an agent id to a          *)
(* reference into heap, and the local `history` of an invocation keeps     *)
(* the reference it read, also after the map entry has been replaced.      *)
(***************************************************************************)
EXTENDS Integers, Sequences, FiniteSets, TLC

\* ---------------------------------------------------------------- bounds
MaxCalls == 2                       \* invokeAgent calls made in one run
MaxLines == 3                       \* lines a codex run prints at most

\* ------------------------------------------------------ program constants
MAX_HISTORY_MESSAGES == 40

\* --------------------------------------------------------------- inputs
Calls        == 1..MaxCalls
AgentIds     == {"default", "coder"}
Messages     == {"hello"}
\* agent.provider; "" stands for an absent (falsy) field
Providers    == {"", "openrouter", "openai"}
\* what resolveOpenRouterModel / resolveCodexModel hand back; "" is falsy
ModelIds     == {"", "gpt-5"}
\* number of user/assistant exchanges that fill the cap exactly
FullExchanges == MAX_HISTORY_MESSAGES \div 2

\* ------------------------------------------------------- JSON values
Undefined  == [t |-> "undefined"]
Invalid    == [t |-> "invalid"]          \* JSON.parse throws
Null       == [t |-> "null"]
Str(s)     == [t |-> "str", s |-> s]
Arr(items) == [t |-> "arr", items |-> items]
Message(content)     == [t |-> "obj", content |-> content]
Choice(message)      == [t |-> "obj", message |-> message]
Data(error, choices) == [t |-> "obj", error |-> error, choices |-> choices]
ErrorObj(message)    == [t |-> "obj", message |-> message]

\* `!== undefined` in the place of truthiness
Truthy_DefinedOnly(v) == v.t # "undefined"

\* JavaScript truthiness of the values above
Truthy(v) ==
    CASE v.t = "undefined" -> FALSE
      [] v.t = "null"      -> FALSE
      [] v.t = "str"       -> v.s # ""
      [] OTHER             -> TRUE

\* Response bodies the endpoint may send with a success status
OkBodies ==
    { "{\"choices\":[{\"message\":{\"content\":\"hi there\"}}]}",
      "{\"choices\":[{\"message\":{\"content\":\"\"}}]}",
      "{\"choices\":[{\"message\":{}}]}",
      "{\"choices\":[{}]}",
      "{\"choices\":[]}",
      "{}",
      "{\"error\":{\"message\":\"no credits\"}}",
      "{\"error\":{\"message\":\"flagged\"},\"choices\":[{\"message\":{\"content\":\"hi there\"}}]}",
      "{\"error\":{},\"choices\":[{\"message\":{\"content\":\"hi there\"}}]}",
      "{\"error\":null,\"choices\":[{\"message\":{\"content\":\"hi there\"}}]}",
      "<html>" }
\* Response bodies the endpoint may send with a failure status
ErrBodies == { "", "upstream down" }

\* response.json(): the parsed value of each body above
JSONParseBody(raw) ==
    CASE raw = "{\"choices\":[{\"message\":{\"content\":\"hi there\"}}]}"
           -> Data(Undefined, Arr(<<Choice(Message(Str("hi there")))>>))
      [] raw = "{\"choices\":[{\"message\":{\"content\":\"\"}}]}"
           -> Data(Undefined, Arr(<<Choice(Message(Str("")))>>))
      [] raw = "{\"choices\":[{\"message\":{}}]}"
           -> Data(Undefined, Arr(<<Choice(Message(Undefined))>>))
      [] raw = "{\"choices\":[{}]}"
           -> Data(Undefined, Arr(<<Choice(Undefined)>>))
      [] raw = "{\"choices\":[]}"
           -> Data(Undefined, Arr(<<>>))
      [] raw = "{}"
           -> Data(Undefined, Undefined)
      [] raw = "{\"error\":{\"message\":\"no credits\"}}"
           -> Data(ErrorObj(Str("no credits")), Undefined)
      [] raw = "{\"error\":{\"message\":\"flagged\"},\"choices\":[{\"message\":{\"content\":\"hi there\"}}]}"
           -> Data(ErrorObj(Str("flagged")), Arr(<<Choice(Message(Str("hi there")))>>))
      [] raw = "{\"error\":{},\"choices\":[{\"message\":{\"content\":\"hi there\"}}]}"
           -> Data(ErrorObj(Undefined), Arr(<<Choice(Message(Str("hi there")))>>))
      [] raw = "{\"error\":null,\"choices\":[{\"message\":{\"content\":\"hi there\"}}]}"
           -> Data(Null, Arr(<<Choice(Message(Str("hi there")))>>))
      [] OTHER -> Invalid

\* -------------------------------------------------- conversation turns
\* ConversationMessage {role, content}; `call` is a history tag naming the
\* invocation that pushed the turn (0: pushed before the run starts).
Turn(role, content, call) == [role |-> role, content |-> content, call |-> call]
Plain(t) == [role |-> t.role, content |-> t.content]
PlainSeq(h) == [i \in 1..Len(h) |-> Plain(h[i])]

NoRef == 0

\* ------------------------------------------------------------- state
VARIABLES
    apiKey,              \* process.env.OPENROUTER_API_KEY ("" when unset)
    agentConversations,  \* agent id -> reference of its history array, NoRef when absent
    heap,                \* reference -> contents of that array
    appended,            \* reference -> every turn ever pushed on that array (history variable)
    started,             \* number of invokeAgent calls made so far
    pc,                  \* per call: where the invocation is suspended
    arg,                 \* per call: the arguments of invokeAgent
    history,             \* per call: the local `history` of invokeOpenRouter
    request,             \* per call: the body handed to fetch
    child,               \* per call: the command line handed to spawn
    inbox,               \* per call: what the endpoint / child process has delivered
    result,              \* per call: how the promise of invokeAgent settled
    alone                \* per call: no other invocation was in flight so far (history variable)

vars == <<apiKey, agentConversations, heap, appended, started, pc, arg,
          history, request, child, inbox, result, alone>>

Nothing   == [kind |-> "nothing"]
Pending   == [kind |-> "pending"]
Resolved(text)  == [kind |-> "resolved", text |-> text]
Rejected(error) == [kind |-> "rejected", error |-> error]
NoArg     == [agentId |-> "", message |-> "", shouldReset |-> FALSE, modelId |-> ""]
NoRequest == [model |-> "", messages |-> <<>>]
NoChild   == [command |-> "", args |-> <<>>]

InFlight(c) == pc[c] \notin {"idle", "done"}

\* The store after k completed exchanges with agent "default": a run starts
\* either with an empty map or with a history that fills the cap exactly
RECURSIVE PriorHistory(_)
PriorHistory(k) ==
    IF k = 0 THEN <<>>
    ELSE PriorHistory(k - 1) \o <<Turn("user", "hello", 0), Turn("assistant", "hi there", 0)>>

Init ==
    /\ apiKey \in {"", "sk-or-key"}
    /\ \E k \in {0, FullExchanges} :
         /\ heap = IF k = 0 THEN <<>> ELSE <<PriorHistory(k)>>
         /\ appended = heap
         /\ agentConversations =
              [a \in AgentIds |-> IF k > 0 /\ a = "default" THEN 1 ELSE NoRef]
    /\ started = 0
    /\ pc = [c \in Calls |-> "idle"]
    /\ arg = [c \in Calls |-> NoArg]
    /\ history = [c \in Calls |-> NoRef]
    /\ request = [c \in Calls |-> NoRequest]
    /\ child = [c \in Calls |-> NoChild]
    /\ inbox = [c \in Calls |-> Nothing]
    /\ result = [c \in Calls |-> Pending]
    /\ alone = [c \in Calls |-> TRUE]

\* ------------------------------------------------ conversation store
\* history.unshift(turn) in the place of push
Push_Unshift(h, turn) == <<turn>> \o h

\* history.push(turn)
Push(h, turn) == Append(h, turn)

\* history.pop() in the place of shift
Shift_Pop(h) == SubSeq(h, 1, Len(h) - 1)

\* history.shift()
Shift(h) == Tail(h)

\* `if` in the place of `while`: one shift at most
TrimHistory_Once(h) ==
    IF Len(h) > MAX_HISTORY_MESSAGES THEN Shift(h) ELSE h

\* while (history.length > MAX_HISTORY_MESSAGES) history.shift()
RECURSIVE TrimHistory(_)
TrimHistory(h) ==
    IF Len(h) > MAX_HISTORY_MESSAGES THEN TrimHistory(Shift(h)) ELSE h

\* shouldReset || !agentConversations.has(agentId)
NeedsFresh(agentId, shouldReset) ==
    shouldReset \/ agentConversations[agentId] = NoRef

\* one array serves every agent
Fetched_Shared(agentId, shouldReset) ==
    IF NeedsFresh(agentId, shouldReset)
    THEN <<>>
    ELSE IF agentConversations["default"] # NoRef
    THEN heap[agentConversations["default"]]
    ELSE heap[agentConversations[agentId]]

\* the array is replaced only when the agent has none
Fetched_KeepsOld(agentId, shouldReset) ==
    IF agentConversations[agentId] = NoRef
    THEN <<>>
    ELSE heap[agentConversations[agentId]]

\* the contents of the array `history` refers to after
\* agentConversations.get(agentId)
Fetched(agentId, shouldReset) ==
    IF NeedsFresh(agentId, shouldReset)
    THEN <<>>
    ELSE heap[agentConversations[agentId]]

\* a reset empties the array in place (history.length = 0) and keeps it
FetchedRef_InPlace(agentId, shouldReset) ==
    IF agentConversations[agentId] = NoRef
    THEN Len(heap) + 1
    ELSE agentConversations[agentId]

\* the reference `history` holds
FetchedRef(agentId, shouldReset) ==
    IF NeedsFresh(agentId, shouldReset)
    THEN Len(heap) + 1
    ELSE agentConversations[agentId]

\* the array after the user turn is pushed and the history trimmed
WithUserTurn(h, message, c) == TrimHistory(Push(h, Turn("user", message, c)))

\* the assistant turn is put in front
WithAssistantTurn_Unshift(h, assistantMessage, c) ==
    <<Turn("assistant", assistantMessage, c)>> \o h

\* the array after the assistant turn is pushed
WithAssistantTurn(h, assistantMessage, c) ==
    Push(h, Turn("assistant", assistantMessage, c))

\* the stored history of an agent ([] when the map has no entry)
Stored(agentId) ==
    IF agentConversations[agentId] = NoRef THEN <<>>
    ELSE heap[agentConversations[agentId]]

\* a new invocation starts: nobody in flight is alone any more
Overlap(c) ==
    [d \in Calls |-> IF d = c THEN \A e \in Calls : ~InFlight(e)
                     ELSE IF InFlight(d) THEN FALSE ELSE alone[d]]

\* -------------------------------------------------- invokeOpenRouter
\* the credential is never looked at
MissingKey_Never(key) == FALSE

\* !apiKey
MissingKey(key) == key = ""

\* invokeOpenRouter up to `await fetch(...)`
InvokeOpenRouter(c, agentId, message, modelId, shouldReset) ==
    IF MissingKey(apiKey)
    THEN /\ pc' = [pc EXCEPT ![c] = "done"]
         /\ result' = [result EXCEPT ![c] =
                Rejected("OPENROUTER_API_KEY environment variable is not set")]
         /\ UNCHANGED <<agentConversations, heap, appended, history, request>>
    ELSE LET ref   == FetchedRef(agentId, shouldReset)
             h     == WithUserTurn(Fetched(agentId, shouldReset), message, c)
             log   == IF NeedsFresh(agentId, shouldReset) THEN <<>> ELSE appended[ref]
             grow(f, v) == IF ref > Len(f) THEN Append(f, v) ELSE [f EXCEPT ![ref] = v]
         IN  /\ agentConversations' = [agentConversations EXCEPT ![agentId] = ref]
             /\ heap' = grow(heap, h)
             /\ appended' = grow(appended, Append(log, Turn("user", message, c)))
             /\ history' = [history EXCEPT ![c] = ref]
             /\ request' = [request EXCEPT ![c] = [model |-> modelId, messages |-> h]]
             /\ pc' = [pc EXCEPT ![c] = "fetch"]
             /\ UNCHANGED result

\* Status codes the endpoint may answer with
Statuses == {200, 500}

Headers(status)        == [kind |-> "headers", status |-> status]
Response(status, body) == [kind |-> "response", status |-> status, body |-> body]
Answered     == [kind |-> "answered"]
NetworkError == [kind |-> "neterror"]

\* the status is not looked at
Ok_Always(response) == TRUE

\* response.ok
Ok(response) == response.status >= 200 /\ response.status <= 299

\* data.choices?.[0]?.message?.content || ''
AssistantContent(data) ==
    LET choices == data.choices
        first   == IF choices.t = "arr" /\ Len(choices.items) > 0
                   THEN choices.items[1] ELSE Undefined
        message == IF first.t = "obj" THEN first.message ELSE Undefined
        content == IF message.t = "obj" THEN message.content ELSE Undefined
    IN  IF Truthy(content) THEN content.s ELSE ""

\* `${data.error.message}`
ErrorText(error) == IF error.message.t = "str" THEN error.message.s ELSE "undefined"

\* the endpoint answers the request of call c
ProviderAnswers(c) ==
    /\ pc[c] = "fetch"
    /\ inbox[c] = Nothing
    /\ inbox' = [inbox EXCEPT ![c] = Answered]
    /\ UNCHANGED <<apiKey, agentConversations, heap, appended, started, pc, arg,
                   history, request, child, result, alone>>

\* the connection of call c fails
NetworkFails(c) ==
    /\ pc[c] = "fetch"
    /\ inbox[c] = Nothing
    /\ inbox' = [inbox EXCEPT ![c] = NetworkError]
    /\ UNCHANGED <<apiKey, agentConversations, heap, appended, started, pc, arg,
                   history, request, child, result, alone>>

\* `await fetch(...)` settles with the status line and headers;
\* `if (!response.ok)` picks the body reader
FetchSettles(c, status) ==
    /\ pc[c] = "fetch"
    /\ inbox[c] # Nothing
    /\ IF inbox[c] = NetworkError
       THEN /\ pc' = [pc EXCEPT ![c] = "done"]
            /\ result' = [result EXCEPT ![c] = Rejected("fetch failed")]
            /\ UNCHANGED inbox
       ELSE /\ inbox' = [inbox EXCEPT ![c] = Headers(status)]
            /\ pc' = [pc EXCEPT ![c] = IF Ok(Headers(status)) THEN "json" ELSE "text"]
            /\ UNCHANGED result
    /\ UNCHANGED <<apiKey, agentConversations, heap, appended, started, arg,
                   history, request, child, alone>>

\* `await response.text()` settles and the error is thrown
TextSettles(c, errorBody) ==
    /\ pc[c] = "text"
    /\ pc' = [pc EXCEPT ![c] = "done"]
    /\ inbox' = [inbox EXCEPT ![c] = Response(inbox[c].status, errorBody)]
    /\ result' = [result EXCEPT ![c] =
           Rejected("OpenRouter API error (" \o ToString(inbox[c].status)
                    \o "): " \o errorBody)]
    /\ UNCHANGED <<apiKey, agentConversations, heap, appended, started, arg,
                   history, request, child, alone>>

\* the emptiness test is left out
Empty_Never(assistantMessage) == FALSE

\* !assistantMessage
Empty(assistantMessage) == assistantMessage = ""

\* the assistant turn is pushed before the answer is examined
Finish_PushesFirst(c, data) ==
    LET assistantMessage == AssistantContent(data)
    IN  /\ heap' = [heap EXCEPT ![history[c]] =
               WithAssistantTurn(heap[history[c]], assistantMessage, c)]
        /\ appended' = [appended EXCEPT ![history[c]] =
               Append(appended[history[c]], Turn("assistant", assistantMessage, c))]
        /\ result' = [result EXCEPT ![c] =
               IF Truthy(data.error)
               THEN Rejected("OpenRouter error: " \o ErrorText(data.error))
               ELSE IF Empty(assistantMessage)
               THEN Rejected("OpenRouter returned empty response")
               ELSE Resolved(assistantMessage)]

\* the assistant content is looked at before the error field
Finish_ContentFirst(c, data) ==
    LET assistantMessage == AssistantContent(data)
    IN  IF ~Empty(assistantMessage)
        THEN /\ heap' = [heap EXCEPT ![history[c]] =
                    WithAssistantTurn(heap[history[c]], assistantMessage, c)]
             /\ appended' = [appended EXCEPT ![history[c]] =
                    Append(appended[history[c]], Turn("assistant", assistantMessage, c))]
             /\ result' = [result EXCEPT ![c] = Resolved(assistantMessage)]
        ELSE IF Truthy(data.error)
        THEN /\ result' = [result EXCEPT ![c] =
                    Rejected("OpenRouter error: " \o ErrorText(data.error))]
             /\ UNCHANGED <<heap, appended>>
        ELSE /\ result' = [result EXCEPT ![c] =
                    Rejected("OpenRouter returned empty response")]
             /\ UNCHANGED <<heap, appended>>

\* invokeOpenRouter after `await response.json()` has produced data
Finish(c, data) ==
    LET assistantMessage == AssistantContent(data)
    IN  IF Truthy(data.error)
        THEN /\ result' = [result EXCEPT ![c] =
                    Rejected("OpenRouter error: " \o ErrorText(data.error))]
             /\ UNCHANGED <<heap, appended>>
        ELSE IF Empty(assistantMessage)
        THEN /\ result' = [result EXCEPT ![c] =
                    Rejected("OpenRouter returned empty response")]
             /\ UNCHANGED <<heap, appended>>
        ELSE /\ heap' = [heap EXCEPT ![history[c]] =
                    WithAssistantTurn(heap[history[c]], assistantMessage, c)]
             /\ appended' = [appended EXCEPT ![history[c]] =
                    Append(appended[history[c]], Turn("assistant", assistantMessage, c))]
             /\ result' = [result EXCEPT ![c] = Resolved(assistantMessage)]

\* `await response.json()` settles; the rest of invokeOpenRouter runs
JsonSettles(c, body) ==
    /\ pc[c] = "json"
    /\ pc' = [pc EXCEPT ![c] = "done"]
    /\ inbox' = [inbox EXCEPT ![c] = Response(inbox[c].status, body)]
    /\ IF JSONParseBody(body) = Invalid
       THEN /\ result' = [result EXCEPT ![c] = Rejected("SyntaxError")]
            /\ UNCHANGED <<heap, appended>>
       ELSE Finish(c, JSONParseBody(body))
    /\ UNCHANGED <<apiKey, agentConversations, started, arg,
                   history, request, child, alone>>

\* ------------------------------------------------------- runCommand
\* Lines a codex process may print
DiagLine     == "Reading prompt from stdin..."
StartedLine  == "{\"type\":\"thread.started\"}"
ReasonLine   == "{\"type\":\"item.completed\",\"item\":{\"type\":\"reasoning\",\"text\":\"thinking\"}}"
DraftLine    == "{\"type\":\"item.completed\",\"item\":{\"type\":\"agent_message\",\"text\":\"draft\"}}"
AnswerLine   == "{\"type\":\"item.completed\",\"item\":{\"type\":\"agent_message\",\"text\":\"answer\"}}"
BlankMsgLine == "{\"type\":\"item.completed\",\"item\":{\"type\":\"agent_message\",\"text\":\"\"}}"
NoTextLine   == "{\"type\":\"item.completed\",\"item\":{\"type\":\"agent_message\"}}"
NoItemLine   == "{\"type\":\"item.completed\"}"
NullLine     == "null"

Event(type, item) == [t |-> "obj", type |-> type, item |-> item]
Item(type, text)  == [t |-> "obj", type |-> type, text |-> text]

\* JSON.parse(line) for the lines above
JSONParseLine(line) ==
    CASE line = StartedLine  -> Event(Str("thread.started"), Undefined)
      [] line = ReasonLine   -> Event(Str("item.completed"), Item(Str("reasoning"), Str("thinking")))
      [] line = DraftLine    -> Event(Str("item.completed"), Item(Str("agent_message"), Str("draft")))
      [] line = AnswerLine   -> Event(Str("item.completed"), Item(Str("agent_message"), Str("answer")))
      [] line = BlankMsgLine -> Event(Str("item.completed"), Item(Str("agent_message"), Str("")))
      [] line = NoTextLine   -> Event(Str("item.completed"), Item(Str("agent_message"), Undefined))
      [] line = NoItemLine   -> Event(Str("item.completed"), Undefined)
      [] line = NullLine     -> Null
      [] OTHER               -> Invalid

\* Standard output of a run, one element per line
Stdouts ==
    { <<>>,
      <<DiagLine, AnswerLine>>,
      <<StartedLine, DraftLine, ReasonLine, AnswerLine, "">>,
      <<StartedLine, ReasonLine>> }

\* Standard error of a run, as pieces of text; a piece that is white space
\* only is one of WhiteSpace
WhiteSpace == {" ", "\n"}
Stderrs    == { <<>>, <<"\n">>, <<"codex: not logged in", "\n">> }

\* exit code reported by 'close'; NullCode is the null of a signalled child
NullCode  == -1
ExitCodes == {0, 1, NullCode}

Close(code, stdout, stderr) ==
    [kind |-> "close", code |-> code, stdout |-> stdout, stderr |-> stderr]
\* What a run may hand to the 'close' handler
Closes ==
    { Close(code, out, err) : code \in ExitCodes, out \in Stdouts, err \in Stderrs }
SpawnError == [kind |-> "error"]

RECURSIVE DropLeading(_, _)
DropLeading(seq, blank) ==
    IF seq # <<>> /\ Head(seq) \in blank THEN DropLeading(Tail(seq), blank) ELSE seq

RECURSIVE DropTrailing(_, _)
DropTrailing(seq, blank) ==
    IF seq # <<>> /\ seq[Len(seq)] \in blank
    THEN DropTrailing(SubSeq(seq, 1, Len(seq) - 1), blank) ELSE seq

RECURSIVE Join(_)
Join(pieces) == IF pieces = <<>> THEN "" ELSE Head(pieces) \o Join(Tail(pieces))

\* stderr.trim()
TrimStderr(stderr) == Join(DropTrailing(DropLeading(stderr, WhiteSpace), WhiteSpace))

\* `${code}`
CodeText(code) == IF code = NullCode THEN "null" ELSE ToString(code)

\* the trimmed text is used even when nothing is left of it
ErrorMessage_NoFallback(code, stderr) == TrimStderr(stderr)

\* stderr.trim() || `Command exited with code ${code}`
ErrorMessage(code, stderr) ==
    IF TrimStderr(stderr) # "" THEN TrimStderr(stderr)
    ELSE "Command exited with code " \o CodeText(code)

\* codexOutput.trim().split('\n')
SplitLines(stdout) ==
    LET trimmed == DropTrailing(DropLeading(stdout, {""}), {""})
    IN  IF trimmed = <<>> THEN <<"">> ELSE trimmed

\* json.type === 'item.completed' && json.item?.type === 'agent_message'
IsAgentMessage(json) ==
    /\ json.t = "obj"
    /\ json.type = Str("item.completed")
    /\ json.item.t = "obj"
    /\ json.item.type = Str("agent_message")

\* the loop stops at the first agent message
RECURSIVE ExtractResponse_First(_, _)
ExtractResponse_First(lines, response) ==
    IF lines = <<>> THEN response
    ELSE LET json == JSONParseLine(Head(lines))
         IN  ExtractResponse_First(Tail(lines),
                 IF IsAgentMessage(json) /\ response = Str("")
                 THEN json.item.text ELSE response)

\* the loop over the lines: `response` after the lines have been read
RECURSIVE ExtractResponse(_, _)
ExtractResponse(lines, response) ==
    IF lines = <<>> THEN response
    ELSE LET json == JSONParseLine(Head(lines))
         IN  ExtractResponse(Tail(lines),
                 IF IsAgentMessage(json) THEN json.item.text ELSE response)

Fallback == "Sorry, I could not generate a response from Codex."

\* the response is returned as it is
CodexResponse_Raw(codexOutput) ==
    LET response == ExtractResponse(SplitLines(codexOutput), Str(""))
    IN  IF response.t = "str" THEN response.s ELSE "undefined"

\* response || 'Sorry, ...'
CodexResponse(codexOutput) ==
    LET response == ExtractResponse(SplitLines(codexOutput), Str(""))
    IN  IF Truthy(response) THEN response.s ELSE Fallback

\* the session is resumed on reset and not otherwise
CodexArgs_ResumeOnReset(message, modelId, shouldReset) ==
    <<"exec">>
    \o (IF shouldReset THEN <<"resume", "--last">> ELSE <<>>)
    \o (IF modelId # "" THEN <<"--model", modelId>> ELSE <<>>)
    \o <<"--json", message>>

\* the argument list handed to spawn
CodexArgs(message, modelId, shouldReset) ==
    LET shouldResume == ~shouldReset
    IN  <<"exec">>
        \o (IF shouldResume THEN <<"resume", "--last">> ELSE <<>>)
        \o (IF modelId # "" THEN <<"--model", modelId>> ELSE <<>>)
        \o <<"--json", message>>

\* invokeAgent, provider 'openai', up to `await runCommand(...)`
SpawnCodex(c, message, modelId, shouldReset) ==
    /\ child' = [child EXCEPT ![c] =
           [command |-> "codex", args |-> CodexArgs(message, modelId, shouldReset)]]
    /\ pc' = [pc EXCEPT ![c] = "spawned"]
    /\ UNCHANGED <<agentConversations, heap, appended, history, request, result>>

\* the child of call c closes
ChildCloses(c) ==
    /\ pc[c] = "spawned"
    /\ inbox[c] = Nothing
    /\ inbox' = [inbox EXCEPT ![c] = Answered]
    /\ UNCHANGED <<apiKey, agentConversations, heap, appended, started, pc, arg,
                   history, request, child, result, alone>>

\* the child of call c cannot be started
ChildErrors(c) ==
    /\ pc[c] = "spawned"
    /\ inbox[c] = Nothing
    /\ inbox' = [inbox EXCEPT ![c] = SpawnError]
    /\ UNCHANGED <<apiKey, agentConversations, heap, appended, started, pc, arg,
                   history, request, child, result, alone>>

\* the promise of runCommand for what the 'close' handler is given
RunCommand(close) ==
    IF close.code = 0 THEN Resolved(close.stdout)
    ELSE Rejected(ErrorMessage(close.code, close.stderr))

\* invokeAgent after `await runCommand(...)`
AfterRunCommand(settled) ==
    IF settled.kind = "resolved" THEN Resolved(CodexResponse(settled.text))
    ELSE settled

\* the 'error' / 'close' handler settles runCommand and invokeAgent goes on
RunCommandSettles(c, close) ==
    /\ pc[c] = "spawned"
    /\ inbox[c] # Nothing
    /\ pc' = [pc EXCEPT ![c] = "done"]
    /\ IF inbox[c] = SpawnError
       THEN /\ result' = [result EXCEPT ![c] = Rejected("spawn codex ENOENT")]
            /\ UNCHANGED inbox
       ELSE /\ inbox' = [inbox EXCEPT ![c] = close]
            /\ result' = [result EXCEPT ![c] = AfterRunCommand(RunCommand(close))]
    /\ UNCHANGED <<apiKey, agentConversations, heap, appended, started, arg,
                   history, request, child, alone>>

\* ------------------------------------------------------- invokeAgent
\* agent.provider || 'openrouter'
Provider(agentProvider) == IF agentProvider # "" THEN agentProvider ELSE "openrouter"

\* provider === 'openai'
UsesCodex(provider) == provider = "openai"

\* invokeAgent(agent, agentId, message, workspacePath, shouldReset) up to the
\* first await; modelId is what the model resolver returns for agent.model
\* (ensureAgentDirectory and updateAgentTeammates, lines 140-148, write only
\* to the agent's directory and are left out)
InvokeAgent(c, agentProvider, modelId, agentId, message, shouldReset) ==
    /\ pc[c] = "idle"
    /\ c = started + 1
    /\ started' = c
    /\ arg' = [arg EXCEPT ![c] =
           [agentId |-> agentId, message |-> message, shouldReset |-> shouldReset,
            modelId |-> modelId]]
    /\ alone' = Overlap(c)
    /\ IF UsesCodex(Provider(agentProvider))
       THEN SpawnCodex(c, message, modelId, shouldReset)
       ELSE /\ InvokeOpenRouter(c, agentId, message, modelId, shouldReset)
            /\ UNCHANGED child
    /\ UNCHANGED <<apiKey, inbox>>

\* ------------------------------------------------------ specification
\* Overlapping invocations: up to MaxCalls calls in any interleaving, each
\* with one of the typical outcomes of its provider.
TypicalOkBodies ==
    { "{\"choices\":[{\"message\":{\"content\":\"hi there\"}}]}",
      "{\"choices\":[{\"message\":{\"content\":\"\"}}]}",
      "{\"error\":{\"message\":\"no credits\"}}" }
TypicalErrBodies == { "upstream down" }
TypicalCloses ==
    { Close(0, <<DiagLine, AnswerLine>>, <<>>),
      Close(1, <<>>, <<"codex: not logged in", "\n">>) }
TypicalModelIds == { "gpt-5" }

Step(calls, models, messages, okBodies, errBodies, closes) ==
    \/ \E c \in calls, p \in Providers, m \in models, a \in AgentIds,
          msg \in messages, r \in BOOLEAN : InvokeAgent(c, p, m, a, msg, r)
    \/ \E c \in calls : ProviderAnswers(c)
    \/ \E c \in calls : NetworkFails(c)
    \/ \E c \in calls, status \in Statuses : FetchSettles(c, status)
    \/ \E c \in calls, errorBody \in errBodies : TextSettles(c, errorBody)
    \/ \E c \in calls, body \in okBodies : JsonSettles(c, body)
    \/ \E c \in calls : ChildCloses(c)
    \/ \E c \in calls : ChildErrors(c)
    \/ \E c \in calls : /\ pc[c] = "spawned" /\ inbox[c] # Nothing
                         /\ \E close \in closes : RunCommandSettles(c, close)

Next ==
    Step(Calls, TypicalModelIds, Messages,
         TypicalOkBodies, TypicalErrBodies, TypicalCloses)

Spec == Init /\ [][Next]_vars

\* One invocation at a time, with every input and every outcome.
SoloMessages == { "hello", "status" }

SoloNext ==
    Step({1}, ModelIds, SoloMessages, OkBodies, ErrBodies, Closes)

SoloSpec == Init /\ [][SoloNext]_vars

\* One invocation, with every outcome above and, for a codex run that exits
\* with code 0, every output of at most MaxLines lines.
Lines ==
    { DiagLine, "", StartedLine, ReasonLine, DraftLine, AnswerLine,
      BlankMsgLine, NoTextLine, NoItemLine, NullLine }
LineCloses ==
    { Close(0, out, <<>>) : out \in UNION { [1..n -> Lines] : n \in 0..MaxLines } }

\* What the 'close' handler may be given in OutputSpec, as one enumerated set
OutputCloses == { close : close \in Closes \cup LineCloses }

OutputNext ==
    Step({1}, TypicalModelIds, Messages, OkBodies, ErrBodies, OutputCloses)

OutputSpec == Init /\ [][OutputNext]_vars

\* The event loop runs every continuation that is ready; whether the
\* endpoint answers or the child closes is up to the environment.
Fairness ==
    /\ WF_vars(\E status \in Statuses : FetchSettles(1, status))
    /\ WF_vars(\E errorBody \in ErrBodies : TextSettles(1, errorBody))
    /\ WF_vars(\E body \in OkBodies : JsonSettles(1, body))
    /\ WF_vars(\E close \in Closes : RunCommandSettles(1, close))

FairSoloSpec == SoloSpec /\ Fairness

TypeOK ==
    /\ started \in 0..MaxCalls
    /\ \A c \in Calls : pc[c] \in {"idle", "fetch", "text", "json", "spawned", "done"}
    /\ Len(heap) = Len(appended)

\* ------------------------------------------------------------ claims
HiThereBody == "{\"choices\":[{\"message\":{\"content\":\"hi there\"}}]}"
UserTurn(c) == [role |-> "user", content |-> arg[c].message]
IsHttp(c)   == history[c] # NoRef
Positions(h, role, c) == {i \in 1..Len(h) : h[i].call = c /\ h[i].role = role}
IsSuffix(h, log) ==
    /\ Len(h) <= Len(log)
    /\ h = SubSeq(log, Len(log) - Len(h) + 1, Len(log))

\* C1: the stored history of every agent has at most MAX_HISTORY_MESSAGES
\* turns in every reachable state.
C1_HistoryWithinCap ==
    \A a \in AgentIds : Len(Stored(a)) <= MAX_HISTORY_MESSAGES

\* C2: no invocation, whatever the provider of its agent, ever spawns a
\* local process.
C2_NeverSpawns ==
    \A c \in Calls : pc[c] # "spawned" /\ child[c] = NoChild

\* C3: every invocation that has been made eventually resolves or rejects.
C3_EveryInvocationSettles ==
    InFlight(1) ~> (pc[1] = "done")

\* C4: when an invocation with the reset flag sends its request, the request
\* and the stored history of its agent hold exactly the triggering user turn.
C4_ResetSendsOnlyTrigger ==
    [][\A c \in Calls :
          (pc[c] = "idle" /\ pc'[c] = "fetch" /\ arg'[c].shouldReset) =>
              /\ PlainSeq(request'[c].messages) = <<UserTurn(c)'>>
              /\ PlainSeq(heap'[agentConversations'[arg'[c].agentId]]) = <<UserTurn(c)'>>]_vars

\* C4 witness: a reset invocation of agent "default" has sent its request
\* while an older, non-empty history of that agent existed.
C4_Witness ==
    \E c \in Calls :
        /\ pc[c] = "fetch" /\ arg[c].shouldReset /\ arg[c].agentId = "default"
        /\ history[c] > 1
        /\ Len(heap[1]) > 1

\* Bodies with a success status whose first choice has no assistant content
EmptyContentBodies ==
    { "{\"choices\":[{\"message\":{\"content\":\"\"}}]}",
      "{\"choices\":[{\"message\":{}}]}",
      "{\"choices\":[{}]}",
      "{\"choices\":[]}",
      "{}" }

\* C5: a success status with empty or missing assistant content rejects the
\* invocation and pushes nothing on any history.
C5_EmptyContentFails ==
    [][\A c \in Calls :
          (pc[c] = "json" /\ pc'[c] = "done" /\ inbox'[c].body \in EmptyContentBodies) =>
              /\ result'[c].kind = "rejected"
              /\ heap' = heap]_vars

\* C5 witness: an invocation has been answered with status 200 and a body
\* whose message has no content field.
C5_Witness ==
    \E c \in Calls :
        /\ pc[c] = "done" /\ inbox[c].kind = "response" /\ inbox[c].status = 200
        /\ inbox[c].body = "{\"choices\":[{\"message\":{}}]}"
        /\ result[c].kind = "rejected"

\* C6: an invocation without reset, on an agent without history and with no
\* other invocation in flight, sends exactly its user turn, returns the
\* content of the answer, and leaves [user, assistant] in the store.
C6_FirstExchange ==
    [][\A c \in Calls :
          ( /\ pc[c] = "json" /\ pc'[c] = "done"
            /\ inbox'[c].body = HiThereBody
            /\ ~arg[c].shouldReset
            /\ alone[c]
            /\ appended[history[c]][1].call = c ) =>
              /\ PlainSeq(request[c].messages) = <<UserTurn(c)>>
              /\ result'[c] = Resolved("hi there")
              /\ PlainSeq(heap'[agentConversations'[arg[c].agentId]])
                     = <<UserTurn(c), [role |-> "assistant", content |-> "hi there"]>>]_vars

\* C6 witness: such an invocation has returned and the store holds the two
\* turns.
C6_Witness ==
    \E c \in Calls :
        /\ pc[c] = "done" /\ result[c] = Resolved("hi there")
        /\ ~arg[c].shouldReset /\ alone[c]
        /\ PlainSeq(Stored(arg[c].agentId))
               = <<UserTurn(c), [role |-> "assistant", content |-> "hi there"]>>

\* C7: when an HTTP invocation returns, its assistant turn is in the history
\* the store holds for its agent.
C7_AssistantTurnStored ==
    [][\A c \in Calls :
          (pc[c] = "json" /\ pc'[c] = "done" /\ result'[c].kind = "resolved") =>
              Positions(heap'[agentConversations'[arg[c].agentId]], "assistant", c) # {}]_vars

\* C8: user turns of two invocations of one agent, neither with reset, stand
\* in every history in the order in which the invocations were made.
C8_UserTurnsInCallOrder ==
    \A c1, c2 \in Calls :
        (c1 < c2 /\ IsHttp(c1) /\ IsHttp(c2) /\ arg[c1].agentId = arg[c2].agentId
                 /\ ~arg[c1].shouldReset /\ ~arg[c2].shouldReset) =>
            \A r \in 1..Len(heap) :
                \A i \in Positions(heap[r], "user", c1) :
                    \A j \in Positions(heap[r], "user", c2) : i < j

\* C8 witness: the second invocation was made while the first was still
\* waiting for the endpoint, and both user turns are stored.
C8_Witness ==
    /\ pc[1] = "fetch" /\ pc[2] = "fetch"
    /\ arg[1].agentId = arg[2].agentId
    /\ ~arg[1].shouldReset /\ ~arg[2].shouldReset
    /\ Positions(Stored(arg[1].agentId), "user", 1) # {}
    /\ Positions(Stored(arg[1].agentId), "user", 2) # {}

\* C9: of two successful invocations of one agent, neither with reset, the
\* request of the later one holds the assistant turn of the earlier one, and
\* the earlier assistant turn stands directly after its user turn.
C9_TurnsNotInterleaved ==
    \A c1, c2 \in Calls :
        (c1 < c2 /\ IsHttp(c1) /\ IsHttp(c2) /\ arg[c1].agentId = arg[c2].agentId
                 /\ ~arg[c1].shouldReset /\ ~arg[c2].shouldReset
                 /\ result[c1].kind = "resolved" /\ result[c2].kind = "resolved") =>
            /\ Positions(request[c2].messages, "assistant", c1) # {}
            /\ \A r \in 1..Len(heap) :
                 \A i \in Positions(heap[r], "user", c1) :
                     \A k \in Positions(heap[r], "assistant", c1) : k = i + 1

\* C10: every history array is a contiguous suffix, in order, of the turns
\* that were pushed on it.
C10_SuffixOfAppended ==
    \A r \in 1..Len(heap) : IsSuffix(heap[r], appended[r])

\* C10 witness: turns have been evicted from a stored history.
C10_Witness ==
    \E a \in AgentIds :
        /\ agentConversations[a] # NoRef
        /\ Len(appended[agentConversations[a]]) > Len(Stored(a))
        /\ Len(Stored(a)) > 0

\* the agent whose history array holds a turn tagged with call d
OwnerOf(d) == IF d = 0 THEN "default" ELSE arg[d].agentId

\* C11: a step of an invocation for one agent leaves the map entry and the
\* stored history of every other agent as they were; a request holds only
\* turns pushed by invocations of its own agent; and an invocation for an
\* agent the map does not know sends its request with just its user turn.
C11_AgentsIsolated ==
    /\ [][\A b \in AgentIds :
            (\A c \in Calls : pc'[c] # pc[c] => arg'[c].agentId # b) =>
                /\ agentConversations'[b] = agentConversations[b]
                /\ Stored(b)' = Stored(b)]_vars
    /\ [][\A c \in Calls :
            (pc[c] = "idle" /\ pc'[c] \notin {"idle", "spawned"} /\ apiKey # ""
                 /\ agentConversations[arg'[c].agentId] = NoRef) =>
                /\ pc'[c] = "fetch"
                /\ PlainSeq(request'[c].messages) = <<UserTurn(c)'>>]_vars
    /\ [](\A c \in Calls :
            \A i \in 1..Len(request[c].messages) :
                OwnerOf(request[c].messages[i].call) = arg[c].agentId)

\* C11 witness: agent "default" holds its earlier history untouched while an
\* invocation with the reset flag for the so far unknown agent "coder" has
\* sent its request.
C11_Witness ==
    \E c \in Calls :
        /\ pc[c] = "fetch" /\ arg[c].agentId = "coder" /\ arg[c].shouldReset
        /\ Len(Stored("default")) = MAX_HISTORY_MESSAGES
        /\ Len(Stored("coder")) = 1

\* C12: without the credential an HTTP invocation rejects at once with the
\* configuration error, sends no request and leaves map and arrays alone.
C12_MissingKeyFailsFast ==
    [][\A c \in Calls :
          (pc[c] = "idle" /\ pc'[c] \notin {"idle", "spawned"} /\ apiKey = "") =>
              /\ pc'[c] = "done"
              /\ result'[c] = Rejected("OPENROUTER_API_KEY environment variable is not set")
              /\ request'[c] = NoRequest
              /\ agentConversations' = agentConversations
              /\ heap' = heap]_vars

\* C12 witness: an invocation with the reset flag was rejected for the
\* missing credential and the full history of its agent is still stored.
C12_Witness ==
    \E c \in Calls :
        /\ pc[c] = "done" /\ apiKey = "" /\ arg[c].shouldReset
        /\ arg[c].agentId = "default"
        /\ result[c] = Rejected("OPENROUTER_API_KEY environment variable is not set")
        /\ Len(Stored("default")) = MAX_HISTORY_MESSAGES

\* C13: an answer with a status outside 200..299 rejects the invocation with
\* an error that holds the status code and the body text; no text is
\* returned and no assistant turn of the invocation is in any array.
C13_FailureStatusRejects ==
    \A c \in Calls :
        (pc[c] = "done" /\ inbox[c].kind = "response"
             /\ (inbox[c].status < 200 \/ inbox[c].status > 299)) =>
            /\ result[c] = Rejected("OpenRouter API error ("
                                    \o ToString(inbox[c].status) \o "): " \o inbox[c].body)
            /\ \A r \in 1..Len(heap) : Positions(heap[r], "assistant", c) = {}

\* C13 witness: an invocation was answered with status 500 and the body
\* "upstream down" and has been rejected with both in the message.
C13_Witness ==
    \E c \in Calls :
        /\ pc[c] = "done"
        /\ inbox[c] = Response(500, "upstream down")
        /\ result[c] = Rejected("OpenRouter API error (500): upstream down")

\* Lines that are a completed agent message, and the last of them in an output
AgentMessageLines == {DraftLine, AnswerLine, BlankMsgLine, NoTextLine}
MessagePositions(out) == {i \in 1..Len(out) : out[i] \in AgentMessageLines}
HasMessage(out) == MessagePositions(out) # {}
LastMessage(out) ==
    out[CHOOSE i \in MessagePositions(out) : \A j \in MessagePositions(out) : j <= i]
ExitedCleanly(c) == pc[c] = "done" /\ inbox[c].kind = "close" /\ inbox[c].code = 0

\* C14 as stated: a run that exits with code 0 returns the text field of the
\* last completed agent message line of its output.
C14_LastMessageText ==
    \A c \in Calls :
        (ExitedCleanly(c) /\ HasMessage(inbox[c].stdout)) =>
            /\ LastMessage(inbox[c].stdout) = DraftLine  => result[c] = Resolved("draft")
            /\ LastMessage(inbox[c].stdout) = AnswerLine => result[c] = Resolved("answer")
            /\ LastMessage(inbox[c].stdout) = BlankMsgLine => result[c] = Resolved("")

\* C14 amended: a run that exits with code 0 always resolves; it returns the
\* text field of the last completed agent message line when that text is not
\* empty, and the fallback sentence when it is empty or missing, whatever
\* other lines the output holds.
C14_LastNonEmptyMessageText ==
    \A c \in Calls :
        ExitedCleanly(c) =>
            /\ result[c].kind = "resolved"
            /\ HasMessage(inbox[c].stdout) =>
                 /\ LastMessage(inbox[c].stdout) = DraftLine  => result[c].text = "draft"
                 /\ LastMessage(inbox[c].stdout) = AnswerLine => result[c].text = "answer"
                 /\ LastMessage(inbox[c].stdout) \in {BlankMsgLine, NoTextLine} =>
                        result[c].text = "Sorry, I could not generate a response from Codex."

\* C14 witness: the output held a draft message, a line that is not JSON and
\* then the answer, and the answer was returned.
C14_Witness ==
    \E c \in Calls :
        /\ ExitedCleanly(c)
        /\ inbox[c].stdout = <<DraftLine, DiagLine, AnswerLine>>
        /\ result[c] = Resolved("answer")

\* C15: a run that exits with code 0 without a completed agent message line
\* in its output resolves with the fallback sentence.
C15_FallbackWithoutMessage ==
    \A c \in Calls :
        (ExitedCleanly(c) /\ ~HasMessage(inbox[c].stdout)) =>
            result[c] = Resolved("Sorry, I could not generate a response from Codex.")

\* C15 witness: a run printed nothing, exited with code 0, and the fallback
\* sentence was returned.
C15_Witness ==
    \E c \in Calls :
        /\ ExitedCleanly(c)
        /\ inbox[c].stdout = <<>>
        /\ result[c] = Resolved("Sorry, I could not generate a response from Codex.")

\* The text of each standard-error capture, as captured and with the white
\* space at both ends removed, and the message that names an exit code
CapturedText(stderr) ==
    CASE stderr = <<>>     -> ""
      [] stderr = <<"\n">> -> "\n"
      [] OTHER             -> "codex: not logged in\n"
StrippedText(stderr) ==
    CASE stderr = <<>>     -> ""
      [] stderr = <<"\n">> -> ""
      [] OTHER             -> "codex: not logged in"
ExitMessage(code) ==
    IF code = 1 THEN "Command exited with code 1" ELSE "Command exited with code null"
Closed(c) == pc[c] = "done" /\ inbox[c].kind = "close"

\* C16 as stated: runCommand resolves with the captured output exactly when
\* the exit code is 0; otherwise the invocation rejects with the captured
\* standard-error text, or with the exit-code message when nothing was
\* captured.
C16_RejectsWithCapturedStderr ==
    \A c \in Calls :
        Closed(c) =>
            /\ (RunCommand(inbox[c]) = Resolved(inbox[c].stdout)) <=> (inbox[c].code = 0)
            /\ (RunCommand(inbox[c]).kind = "resolved") <=> (inbox[c].code = 0)
            /\ inbox[c].code # 0 =>
                 result[c] = Rejected(IF inbox[c].stderr = <<>>
                                      THEN ExitMessage(inbox[c].code)
                                      ELSE CapturedText(inbox[c].stderr))

\* C16 amended: the same, with the standard-error text taken without the
\* white space at its ends, and the exit-code message used when nothing but
\* white space was captured.
C16_RejectsWithStrippedStderr ==
    \A c \in Calls :
        Closed(c) =>
            /\ (RunCommand(inbox[c]) = Resolved(inbox[c].stdout)) <=> (inbox[c].code = 0)
            /\ (RunCommand(inbox[c]).kind = "resolved") <=> (inbox[c].code = 0)
            /\ (result[c].kind = "resolved") <=> (inbox[c].code = 0)
            /\ inbox[c].code # 0 =>
                 result[c] = Rejected(IF StrippedText(inbox[c].stderr) = ""
                                      THEN ExitMessage(inbox[c].code)
                                      ELSE StrippedText(inbox[c].stderr))

\* C16 witness: a child closed with code 1 and nothing on standard error, and
\* the invocation was rejected with the exit-code message.
C16_Witness ==
    \E c \in Calls :
        /\ Closed(c) /\ inbox[c].code = 1 /\ inbox[c].stderr = <<>>
        /\ result[c] = Rejected("Command exited with code 1")

\* C17: the request an invocation sends is the stored history of its agent at
\* that moment, has between 1 and MAX_HISTORY_MESSAGES turns, and ends with
\* the user turn of this invocation.
C17_RequestIsTrimmedHistory ==
    [][\A c \in Calls :
          (pc[c] = "idle" /\ pc'[c] = "fetch") =>
              LET sent == request'[c].messages
              IN  /\ sent = heap'[agentConversations'[arg'[c].agentId]]
                  /\ Len(sent) >= 1
                  /\ Len(sent) <= MAX_HISTORY_MESSAGES
                  /\ sent[Len(sent)] = Turn("user", arg'[c].message, c)]_vars

\* C17 witness: a request of MAX_HISTORY_MESSAGES turns has just been sent
\* from a history that held one turn more than that before the user turn was
\* pushed, so the trimming removed two turns.
C17_Witness ==
    \E c \in Calls :
        /\ pc[c] = "fetch"
        /\ Len(request[c].messages) = MAX_HISTORY_MESSAGES
        /\ heap[history[c]] = request[c].messages
        /\ LET log == appended[history[c]]
           IN  /\ Len(log) = MAX_HISTORY_MESSAGES + 3
               /\ log[Len(log) - 1].role = "assistant"

\* C18: the argument list of a spawned codex is 'exec', then 'resume'
\* '--last' exactly when the reset flag is false, then '--model' and the id
\* exactly when a model id was resolved, then '--json', then the message.
C18_CodexArguments ==
    \A c \in Calls :
        child[c] # NoChild =>
            /\ child[c].command = "codex"
            /\ child[c].args =
                 CASE arg[c].shouldReset /\ arg[c].modelId = ""
                        -> <<"exec", "--json", arg[c].message>>
                   [] arg[c].shouldReset /\ arg[c].modelId # ""
                        -> <<"exec", "--model", arg[c].modelId, "--json", arg[c].message>>
                   [] ~arg[c].shouldReset /\ arg[c].modelId = ""
                        -> <<"exec", "resume", "--last", "--json", arg[c].message>>
                   [] OTHER
                        -> <<"exec", "resume", "--last", "--model", arg[c].modelId,
                             "--json", arg[c].message>>

\* C18 witness: a codex was spawned for an invocation without reset and with
\* a resolved model id.
C18_Witness ==
    \E c \in Calls :
        /\ pc[c] = "spawned" /\ ~arg[c].shouldReset /\ arg[c].modelId = "gpt-5"
        /\ child[c].args = <<"exec", "resume", "--last", "--model", "gpt-5", "--json", "status">>

\* C19: an invocation that resolves, on either provider path, resolves with
\* a text that is not empty.
C19_NeverResolvesEmpty ==
    \A c \in Calls :
        result[c].kind = "resolved" => result[c].text # ""

\* C19 witness: a codex run whose last agent message had the text '' exited
\* with code 0 and the invocation resolved with the fallback sentence.
C19_Witness ==
    \E c \in Calls :
        /\ ExitedCleanly(c)
        /\ inbox[c].stdout = <<AnswerLine, BlankMsgLine>>
        /\ result[c].kind = "resolved"
        /\ result[c].text # ""

\* the last n elements of a sequence (all of it when it is shorter)
LastOf(seq, n) == SubSeq(seq, IF Len(seq) > n THEN Len(seq) - n + 1 ELSE 1, Len(seq))

\* C20: an HTTP invocation that has the credential stores the history it
\* found (none after a reset) with its user turn pushed and the oldest turns
\* dropped down to the cap; when it then fails, the failing step changes no
\* array and no map entry, no assistant turn of it exists, and, if no other
\* invocation overlapped, the store holds what was sent; the request of the
\* next invocation of that agent then ends with the two user turns.
C20_FailureKeepsUserTurn ==
    /\ [][\A c \in Calls :
            (pc[c] = "idle" /\ pc'[c] = "fetch") =>
                LET a    == arg'[c].agentId
                    base == IF arg'[c].shouldReset \/ agentConversations[a] = NoRef
                            THEN <<>> ELSE heap[agentConversations[a]]
                IN  heap'[agentConversations'[a]] =
                        LastOf(Append(base, Turn("user", arg'[c].message, c)),
                               MAX_HISTORY_MESSAGES)]_vars
    /\ [][\A c \in Calls :
            (pc[c] \in {"fetch", "text", "json"} /\ pc'[c] = "done"
                 /\ result'[c].kind = "rejected") =>
                /\ heap' = heap
                /\ agentConversations' = agentConversations
                /\ \A r \in 1..Len(heap') : Positions(heap'[r], "assistant", c) = {}
                /\ alone[c] => heap'[agentConversations'[arg[c].agentId]] = request[c].messages]_vars
    /\ [](\A c1, c2 \in Calls :
            ( /\ c2 = c1 + 1 /\ IsHttp(c1) /\ IsHttp(c2)
              /\ arg[c1].agentId = arg[c2].agentId
              /\ result[c1].kind = "rejected"
              /\ alone[c1] /\ alone[c2] /\ ~arg[c2].shouldReset ) =>
                LastOf(request[c2].messages, 2) =
                    <<Turn("user", arg[c1].message, c1), Turn("user", arg[c2].message, c2)>>)

\* C20 witness: an invocation with a full history failed on an empty answer,
\* and the next invocation of the agent has sent a request that ends with two
\* user turns.
C20_Witness ==
    /\ result[1] = Rejected("OpenRouter returned empty response")
    /\ pc[2] = "fetch" /\ alone[1] /\ alone[2]
    /\ Len(request[2].messages) = MAX_HISTORY_MESSAGES
    /\ request[2].messages[MAX_HISTORY_MESSAGES - 1].role = "user"
    /\ request[2].messages[MAX_HISTORY_MESSAGES].role = "user"

\* C21: once an invocation with the reset flag has been made for an agent, no
\* user or assistant turn of an earlier invocation of that agent is in the
\* history the store holds for it, also when the earlier invocation was still
\* waiting for the endpoint and returned afterwards.
C21_ResetDropsEarlierTurns ==
    \A c1, c2 \in Calls :
        (c1 < c2 /\ IsHttp(c1) /\ IsHttp(c2) /\ arg[c1].agentId = arg[c2].agentId
                 /\ arg[c2].shouldReset) =>
            /\ Positions(Stored(arg[c2].agentId), "user", c1) = {}
            /\ Positions(Stored(arg[c2].agentId), "assistant", c1) = {}

\* C21 witness: the first invocation was waiting when the second, with the
\* reset flag, was made for the same agent; the first has since returned and
\* its assistant turn is in the array it had read, which the store no longer
\* holds.
C21_Witness ==
    /\ IsHttp(1) /\ IsHttp(2)
    /\ pc[1] = "done" /\ result[1].kind = "resolved"
    /\ pc[2] = "fetch" /\ arg[2].shouldReset /\ ~alone[1]
    /\ arg[1].agentId = arg[2].agentId
    /\ history[1] # agentConversations[arg[1].agentId]
    /\ history[2] = agentConversations[arg[1].agentId]
    /\ Positions(heap[history[1]], "assistant", 1) # {}

\* Bodies with a success status that have an error field, and those of them
\* whose error field is an object
NoCreditsBody  == "{\"error\":{\"message\":\"no credits\"}}"
FlaggedBody    == "{\"error\":{\"message\":\"flagged\"},\"choices\":[{\"message\":{\"content\":\"hi there\"}}]}"
BareErrorBody  == "{\"error\":{},\"choices\":[{\"message\":{\"content\":\"hi there\"}}]}"
NullErrorBody  == "{\"error\":null,\"choices\":[{\"message\":{\"content\":\"hi there\"}}]}"
ErrorFieldBodies  == {NoCreditsBody, FlaggedBody, BareErrorBody, NullErrorBody}
ObjectErrorBodies == {NoCreditsBody, FlaggedBody, BareErrorBody}
MessageOfError(body) ==
    CASE body = NoCreditsBody -> "no credits"
      [] body = FlaggedBody   -> "flagged"
      [] OTHER                -> "undefined"
AnsweredOk(c) ==
    pc[c] = "done" /\ inbox[c].kind = "response" /\ inbox[c].status = 200

\* C22 as stated: an answer with a success status whose body has an error
\* field rejects the invocation, also when the body holds non-empty assistant
\* content, and no assistant turn of the invocation is in any array.
C22_ErrorFieldFails ==
    \A c \in Calls :
        (AnsweredOk(c) /\ inbox[c].body \in ErrorFieldBodies) =>
            /\ result[c].kind = "rejected"
            /\ \A r \in 1..Len(heap) : Positions(heap[r], "assistant", c) = {}

\* C22 amended: an answer with a success status whose body has an error
\* field that is an object rejects the invocation with "OpenRouter error: "
\* followed by the message of that object ("undefined" when it has none),
\* also when the body holds non-empty assistant content, and no assistant
\* turn of the invocation is in any array; an error field of null is no error
\* and the content of such a body is returned.
C22_ErrorObjectFails ==
    \A c \in Calls :
        /\ (AnsweredOk(c) /\ inbox[c].body \in ObjectErrorBodies) =>
              /\ result[c] = Rejected("OpenRouter error: " \o MessageOfError(inbox[c].body))
              /\ \A r \in 1..Len(heap) : Positions(heap[r], "assistant", c) = {}
        /\ (AnsweredOk(c) /\ inbox[c].body = NullErrorBody) =>
              /\ result[c] = Resolved("hi there")
              /\ Positions(heap[history[c]], "assistant", c) # {}

\* C22 witness: an invocation was answered with status 200 and a body that
\* holds both an error object and the content "hi there"; it has been
\* rejected with the message of the error object.
C22_Witness ==
    \E c \in Calls :
        /\ pc[c] = "done"
        /\ inbox[c] = Response(200, FlaggedBody)
        /\ result[c] = Rejected("OpenRouter error: flagged")
        /\ Positions(heap[history[c]], "assistant", c) = {}
        /\ Positions(heap[history[c]], "user", c) # {}
====
